---- MODULE Spec2Model ----
(***************************************************************************)
(* A model of fetch_metadata.py (MangaMetadataFetcher): the title matcher  *)
(* of search_manga, the field mapper create_details_json / _map_status,    *)
(* and the directory walk process_all_manga / process_manga_directory.     *)
(*                                                                         *)
(* Strings are sequences of one-character strings, so that lower(),        *)
(* strip() and the `in` substring test are computed, not assumed.          *)
(* A JSON field is a record [k, v]: k = "absent" (key missing),            *)
(* k = "null" (key present, value null) or k = "val" (v is the value).     *)
(***************************************************************************)
EXTENDS Integers, Sequences, FiniteSets, TLC

VARIABLES
    \* ---- search_manga on its own ----
    title,          \* the query handed to search_manga
    data,           \* response.json()['data'] as received so far
    found,          \* what search_manga returned
    mpc,            \* "recv" | "done"
    \* ---- create_details_json on its own ----
    manga_data,     \* the candidate handed to create_details_json
    written,        \* what the call returned and left on disk
    fpc,            \* "ready" | "done"
    \* ---- process_all_manga ----
    fs,             \* entry name -> [details, cover]: the two artifacts on disk
    manga_dirs,     \* sorted(manga_dirs) of the run in progress
    idx,            \* position of the for loop in manga_dirs (1-based)
    pc,             \* "idle" | "loop" | "sleep1" | "details" | "cover" | "sleep2"
    selected,       \* manga_data inside process_manga_directory
    success_count,
    failed_count,
    skipped_count,
    visited,        \* the entries handed to process_manga_directory in this run
    cur,            \* the entry in progress: outbound calls made, a write or download failed
    outcomes,       \* per finished entry of this run: the counter it went to, and why
    need_delay      \* an outbound call was made and no sleep has followed it yet

mvars == <<title, data, found, mpc>>
fvars == <<manga_data, written, fpc>>
wvars == <<fs, manga_dirs, idx, pc, selected, success_count, failed_count,
           skipped_count, visited, cur, outcomes, need_delay>>
vars == <<mvars, fvars, wvars>>

----------------------------------------------------------------------------
(* JSON values *)

Absent == [k |-> "absent", v |-> <<>>]
Null == [k |-> "null", v |-> <<>>]
Val(x) == [k |-> "val", v |-> x]

\* dict.get(key, default) on a field: the default only when the key is missing.
Get(f, default) == IF f.k = "absent" THEN Val(default) ELSE f

----------------------------------------------------------------------------
(* str.lower(), str.strip(), and `a in b` on strings *)

Lower(c) ==
    CASE c = "A" -> "a"
      [] c = "B" -> "b"
      [] c = "Z" -> "z"
      [] OTHER -> c

LowerStr(s) == [i \in 1..Len(s) |-> Lower(s[i])]

IsSpace(c) == c = " "

RECURSIVE LStrip(_)
LStrip(s) == IF s # <<>> /\ IsSpace(Head(s)) THEN LStrip(Tail(s)) ELSE s

RECURSIVE RStrip(_)
RStrip(s) ==
    IF s # <<>> /\ IsSpace(s[Len(s)]) THEN RStrip(SubSeq(s, 1, Len(s) - 1)) ELSE s

Strip(s) == RStrip(LStrip(s))

\* x.lower().strip()
Normalize(s) == Strip(LowerStr(s))

\* Python's `s in t` for strings
IsSubstr(s, t) ==
    \E i \in 0..(Len(t) - Len(s)) : SubSeq(t, i + 1, i + Len(s)) = s

Max(a, b) == IF a >= b THEN a ELSE b

----------------------------------------------------------------------------
(* search_manga: the matching loop *)

\* manga.get('title', '').lower().strip()
MangaTitle(manga) == Normalize(Get(manga.title, <<>>).v)

\* manga.get('title_english', '').lower().strip() if manga.get('title_english') else ''
MangaTitleEnglish(manga) ==
    IF manga.title_english.k = "val" /\ manga.title_english.v # <<>>
    THEN Normalize(manga.title_english.v)
    ELSE <<>>

\* A score is the quotient n / d, kept exact.
Score(search_title_lower, t) == [n |-> Len(search_title_lower), d |-> Max(Len(t), 1)]

ScoreGreater(s1, s2) == s1.n * s2.d > s2.n * s1.d

ZeroScore == [n |-> 0, d |-> 1]

\* Variant of line 68 that forgets the English title.
IsExactMatchTitleOnly(manga, q) == MangaTitle(manga) = q

\* line 68
IsExactMatch(manga, q) == MangaTitle(manga) = q \/ MangaTitleEnglish(manga) = q

\* line 73
TitleRelated(manga, q) == IsSubstr(q, MangaTitle(manga)) \/ IsSubstr(MangaTitle(manga), q)

\* line 78
EnglishRelated(manga, q) ==
    /\ MangaTitleEnglish(manga) # <<>>
    /\ \/ IsSubstr(q, MangaTitleEnglish(manga))
       \/ IsSubstr(MangaTitleEnglish(manga), q)

\* Variant of lines 75-77 and 80-82 with `>=` for `>`.
BetterOrEqual(score, acc, i) ==
    IF ~ScoreGreater(acc.best_score, score)
    THEN [best_match |-> i, best_score |-> score]
    ELSE acc

\* lines 75-77 and 80-82: `if score > best_score`
Better(score, acc, i) ==
    IF ScoreGreater(score, acc.best_score)
    THEN [best_match |-> i, best_score |-> score]
    ELSE acc

\* lines 63-82: the for loop from position i on; best_match is a position in
\* the list (0 is Python's None).
RECURSIVE MatchLoop(_, _, _, _)
MatchLoop(cands, q, i, acc) ==
    IF i > Len(cands) THEN acc
    ELSE LET manga == cands[i] IN
         IF IsExactMatch(manga, q)
         THEN [best_match |-> i, best_score |-> acc.best_score]
         ELSE IF TitleRelated(manga, q)
         THEN MatchLoop(cands, q, i + 1, Better(Score(q, MangaTitle(manga)), acc, i))
         ELSE IF EnglishRelated(manga, q)
         THEN MatchLoop(cands, q, i + 1,
                        Better(Score(q, MangaTitleEnglish(manga)), acc, i))
         ELSE MatchLoop(cands, q, i + 1, acc)

NoneFound == [ok |-> FALSE, index |-> 0, fallback |-> FALSE]

\* Variant of line 85 that tests the score: `if best_score == 0`.
UseFallbackOnZeroScore(best) == best.best_score.n = 0

\* lines 85-87: `if not best_match` (a candidate is a non-empty dict)
UseFallback(best) == best.best_match = 0

\* lines 43-100. The response is [k |-> "error"] when session.get or
\* raise_for_status raised, else [k |-> "ok", data |-> the candidate list].
\* fallback is the warning of line 87.
SearchManga(t, response) ==
    IF response.k = "error" THEN NoneFound
    ELSE IF Len(response.data) = 0 THEN NoneFound
    ELSE LET search_title_lower == Normalize(t)
             best == MatchLoop(response.data, search_title_lower, 1,
                               [best_match |-> 0, best_score |-> ZeroScore])
         IN IF UseFallback(best)
            THEN [ok |-> TRUE, index |-> 1, fallback |-> TRUE]
            ELSE [ok |-> TRUE, index |-> best.best_match, fallback |-> FALSE]

----------------------------------------------------------------------------
(* create_details_json and _map_status *)

\* Variant of lines 148-155 with the codes of 'On Hiatus' and
\* 'Discontinued' exchanged.
MapStatusExchanged(mal_status) ==
    IF mal_status.k # "val" THEN 0
    ELSE CASE mal_status.v = <<"Finished">> -> 2
           [] mal_status.v = <<"Publishing">> -> 1
           [] mal_status.v = <<"On Hiatus">> -> 5
           [] mal_status.v = <<"Discontinued">> -> 6
           [] OTHER -> 0

\* lines 148-155: status_map.get(mal_status, 0); the argument is the JSON
\* value of manga_data.get('status', ''), so None (null) is looked up too.
MapStatus(mal_status) ==
    IF mal_status.k # "val" THEN 0
    ELSE CASE mal_status.v = <<"Finished">> -> 2
           [] mal_status.v = <<"Publishing">> -> 1
           [] mal_status.v = <<"On Hiatus">> -> 6
           [] mal_status.v = <<"Discontinued">> -> 5
           [] mal_status.v = <<"Not yet published">> -> 0
           [] OTHER -> 0

\* ', '.join(names)
RECURSIVE Join(_)
Join(names) ==
    IF names = <<>> THEN <<>>
    ELSE IF Len(names) = 1 THEN names[1]
    ELSE names[1] \o <<",", " ">> \o Join(Tail(names))

\* lines 126-134: the details dict. author/artist and genre are built from
\* lists of {'name': ...} objects, modelled by the list of their names.
Details(m) ==
    [title |-> Get(m.title, <<>>),
     author |-> Join(Get(m.authors, <<>>).v),
     artist |-> Join(Get(m.authors, <<>>).v),
     description |-> Get(m.synopsis, <<>>),
     genre |-> Get(m.genres, <<>>).v,
     status |-> MapStatus(Get(m.status, <<>>))]

\* A file: st is "none" (no such file), "partial" (created, not completely
\* written) or "full"; content is what a full file holds.
BlankDetails ==
    [title |-> Null, author |-> <<>>, artist |-> <<>>, description |-> Null,
     genre |-> <<>>, status |-> 0]

NoFile == [st |-> "none", content |-> BlankDetails]

\* lines 136-144: open(output_path, 'w') and json.dump. io is what the file
\* system does: "ok", "open_fails" (nothing is created; an existing file is
\* kept) or "dump_fails" (the file was truncated and is left incomplete).
CreateDetailsJson(m, old, io) ==
    CASE io = "ok" -> [ret |-> TRUE, file |-> [st |-> "full", content |-> Details(m)]]
      [] io = "open_fails" -> [ret |-> FALSE, file |-> old]
      [] OTHER -> [ret |-> FALSE, file |-> [st |-> "partial", content |-> BlankDetails]]

WriteOutcomes == {"ok", "open_fails", "dump_fails"}

----------------------------------------------------------------------------
(* Candidate records. A status label is kept whole, as a one-element        *)
(* sequence; an author or a genre is the string of its 'name'.             *)
(* A candidate always carries its mal_id, so it is never an empty dict; its *)
(* title is a string when present, authors and genres are lists when       *)
(* present, and title_english, synopsis and status may be null.            *)

Cand(id, t, te, syn, gen, auth, stat, img) ==
    [mal_id |-> id, title |-> t, title_english |-> te, synopsis |-> syn,
     genres |-> gen, authors |-> auth, status |-> stat, images |-> img]

\* "images": {"jpg": {"large_image_url": large, "image_url": std}}
Images(large, std) ==
    Val([jpg |-> Val([large_image_url |-> large, image_url |-> std])])

\* A candidate of which only the two titles matter.
T(id, t, te) ==
    Cand(id, t, te, Val(<<"s">>), Val(<<>>), Val(<<>>), Val(<<"Finished">>),
         Images(Val(<<"L">>), Val(<<"S">>)))

\* The 'limit' parameter of the search request.
SearchLimit == 5

\* Directory names handed to search_manga.
Queries == { <<" ", "A", "b">>, <<"B">>, <<" ">> }

\* What the provider may return for them.
MatchCands ==
    { T(1, Val(<<"A", "B", " ">>), Absent),
      T(2, Val(<<"a", "b", "b">>), Val(<<"a">>)),
      T(3, Val(<<"b">>), Null),
      T(4, Val(<<"z", "z">>), Val(<<"A", "b">>)),
      T(5, Val(<<"z", "z">>), Val(<<"b", "a", "b">>)),
      T(6, Val(<<"Z", "z">>), Val(<<"z">>)),
      T(7, Absent, Val(<<"z", "z">>)),
      T(8, Val(<<"z", "z">>), Absent) }

MapStatuses ==
    { Absent, Null, Val(<<"Finished">>), Val(<<"Publishing">>), Val(<<"On Hiatus">>),
      Val(<<"Discontinued">>), Val(<<"Not yet published">>), Val(<<"Unreleased">>) }

MapCands ==
    { Cand(1, t, Absent, syn, gen, auth, stat, Absent) :
        t \in {Absent, Val(<<"a", "b">>)},
        syn \in {Absent, Null, Val(<<"s">>)},
        gen \in {Absent, Val(<<>>), Val(<< <<"g">>, <<"h">> >>)},
        auth \in {Absent, Val(<<>>), Val(<< <<"x">> >>), Val(<< <<"x">>, <<"y">> >>)},
        stat \in MapStatuses }

NoManga == T(0, Absent, Absent)

----------------------------------------------------------------------------
(* Path ordering: sorted() compares sibling paths by name, code point by   *)
(* code point.                                                             *)

\* The characters of the entry names, in ascending code point order.
CodeOrder ==
    <<" ", "2", "A", "C", "K", "a", "b", "c", "d", "e", "f", "g", "i", "l",
      "m", "n", "o", "r", "t", "v", "w", "z">>

Ord(c) == CHOOSE i \in 1..Len(CodeOrder) : CodeOrder[i] = c

RECURSIVE StrLess(_, _)
StrLess(a, b) ==
    IF b = <<>> THEN FALSE
    ELSE IF a = <<>> THEN TRUE
    ELSE IF Head(a) = Head(b) THEN StrLess(Tail(a), Tail(b))
    ELSE Ord(Head(a)) < Ord(Head(b))

RECURSIVE Insert(_, _)
Insert(x, seq) ==
    IF seq = <<>> THEN <<x>>
    ELSE IF StrLess(x, Head(seq)) THEN <<x>> \o seq
    ELSE <<Head(seq)>> \o Insert(x, Tail(seq))

RECURSIVE InsertionSort(_)
InsertionSort(seq) ==
    IF seq = <<>> THEN <<>> ELSE Insert(Head(seq), InsertionSort(Tail(seq)))

\* Variant of line 220 that iterates manga_dirs as listed.
Unsorted(seq) == seq

\* line 220: sorted(manga_dirs)
Sorted(seq) == InsertionSort(seq)

\* line 212: iterdir() yields the children of the root in an arbitrary order.
Listings(S) ==
    { l \in [1..Cardinality(S) -> S] : \A i, j \in DOMAIN l : i # j => l[i] # l[j] }

----------------------------------------------------------------------------
(* process_manga_directory and process_all_manga *)

FreeMaga ==
    <<"f", "r", "e", "e", " ", "m", "a", "g", "a", " ", "d", "o", "w", "n",
      "l", "o", "a", "d", "e", "r", " ", "2">>

KindleCC ==
    <<"K", "i", "n", "d", "l", "e", " ", "C", "o", "m", "i", "c", " ", "C",
      "o", "n", "v", "e", "r", "t", "e", "r">>

\* Variant of line 162 that names only one of the two directories.
SkipNamesKindleOnly == {KindleCC}

\* line 162
SkipNames == {FreeMaga, KindleCC}

\* line 226
SkippedNames == {FreeMaga, KindleCC}

Exists(file) == file.st # "none"

NoCover == [st |-> "none", content |-> <<>>]

\* Variant of line 174 that looks for the cover under a name that is never
\* there.
AlreadyCompleteWrongCover(files) == Exists(files.details) /\ Exists(NoCover)

\* line 174
AlreadyComplete(files) == Exists(files.details) /\ Exists(files.cover)

Truthy(f) == f.k = "val" /\ f.v # <<>>

\* lines 194-196. raises: .get was called on None (AttributeError).
ImageUrl(m) ==
    IF m.images.k = "null" THEN [raises |-> TRUE, url |-> Null]
    ELSE IF m.images.k = "absent" THEN [raises |-> FALSE, url |-> Null]
    ELSE LET jpg == m.images.v.jpg IN
         IF jpg.k = "null" THEN [raises |-> TRUE, url |-> Null]
         ELSE IF jpg.k = "absent" THEN [raises |-> FALSE, url |-> Null]
         ELSE IF Truthy(jpg.v.large_image_url)
         THEN [raises |-> FALSE, url |-> jpg.v.large_image_url]
         ELSE IF Truthy(jpg.v.image_url)
         THEN [raises |-> FALSE, url |-> jpg.v.image_url]
         ELSE [raises |-> FALSE, url |-> Null]

\* lines 104-120. io: "ok"; "get_fails" (timeout, transport error, non-2xx
\* status); "open_fails"; "write_fails" (the file is left incomplete).
DownloadCover(image_url, old, io) ==
    CASE io = "ok" -> [ret |-> TRUE, file |-> [st |-> "full", content |-> image_url]]
      [] io = "write_fails" ->
            [ret |-> FALSE, file |-> [st |-> "partial", content |-> <<>>]]
      [] OTHER -> [ret |-> FALSE, file |-> old]

DownloadOutcomes == {"ok", "get_fails", "open_fails", "write_fails"}

\* lines 223-229: the counter an entry goes to, given what
\* process_manga_directory returned.
Counter(result, name) ==
    IF result THEN "success"
    ELSE IF name \in SkippedNames THEN "skipped"
    ELSE "failed"

NoCur == [calls |-> 0, io_failed |-> FALSE]

\* The entry of this iteration.
Entry == manga_dirs[idx]

InEntry == pc = "loop" /\ idx <= Len(manga_dirs)

\* One iteration of the for loop ends with `counter` incremented.
Count(counter, c, raised) ==
    /\ success_count' = success_count + (IF counter = "success" THEN 1 ELSE 0)
    /\ failed_count' = failed_count + (IF counter = "failed" THEN 1 ELSE 0)
    /\ skipped_count' = skipped_count + (IF counter = "skipped" THEN 1 ELSE 0)
    /\ outcomes' = Append(outcomes,
                           [name |-> Entry, counter |-> counter, calls |-> c.calls,
                            io_failed |-> c.io_failed, raised |-> raised])
    /\ cur' = NoCur
    /\ idx' = idx + 1
    /\ pc' = "loop"
    /\ selected' = NoManga

\* process_manga_directory returned `result` (lines 222-229).
Return(result, c) == Count(Counter(result, Entry), c, FALSE)

\* process_manga_directory raised (lines 230-232).
Raise(c) == Count("failed", c, TRUE)

\* The directories under the root, and a plain file beside them.
NameAb == <<"A", "b">>
NameZ == <<"z">>
Names == {NameAb, NameZ, FreeMaga, KindleCC}
PlainFile == <<"a">>
RootChildren == Names \cup {PlainFile}

\* d.is_dir()
IsDir(d) == d \in Names

\* line 212: [d for d in self.base_dir.iterdir() if d.is_dir()]
MangaDirs(listing) == SelectSeq(listing, IsDir)

\* Files found in an entry before the first run.
OldDetails ==
    [st |-> "full",
     content |-> [title |-> Val(<<"o">>), author |-> <<>>, artist |-> <<>>,
                  description |-> Val(<<>>), genre |-> <<>>, status |-> 0]]
OldCover == [st |-> "full", content |-> <<"o">>]

InitialFiles(n) ==
    IF n \in SkipNames
    THEN { [details |-> NoFile, cover |-> NoCover],
           [details |-> OldDetails, cover |-> OldCover] }
    ELSE { [details |-> d, cover |-> c] :
             d \in {NoFile, OldDetails}, c \in {NoCover, OldCover} }

\* What the provider may answer to a search during the walk.
WalkLarge ==
    Cand(11, Val(<<"A", "b">>), Null, Null, Val(<< <<"g">> >>), Val(<< <<"x">> >>),
         Val(<<"Publishing">>), Images(Val(<<"L">>), Val(<<"S">>)))
WalkStd ==
    Cand(12, Val(<<"z", "z">>), Absent, Val(<<"s">>), Val(<<>>), Val(<<>>),
         Val(<<"Finished">>), Images(Null, Val(<<"S">>)))
WalkNoUrl ==
    Cand(13, Val(<<"q">>), Absent, Val(<<"s">>), Val(<<>>), Val(<<>>),
         Val(<<"Finished">>), Absent)
WalkBadImages ==
    Cand(14, Val(<<"q">>), Absent, Val(<<"s">>), Val(<<>>), Val(<<>>),
         Val(<<"Finished">>), Null)

Responses ==
    { [k |-> "error", data |-> <<>>],
      [k |-> "ok", data |-> <<>>],
      [k |-> "ok", data |-> <<WalkStd, WalkLarge>>],
      [k |-> "ok", data |-> <<WalkNoUrl>>],
      [k |-> "ok", data |-> <<WalkBadImages>>] }

\* process_all_manga is called (lines 208-218).
StartRun ==
    /\ pc = "idle"
    /\ \E listing \in Listings(RootChildren) :
          manga_dirs' = Sorted(MangaDirs(listing))
    /\ idx' = 1
    /\ pc' = "loop"
    /\ success_count' = 0
    /\ failed_count' = 0
    /\ skipped_count' = 0
    /\ visited' = <<>>
    /\ cur' = NoCur
    /\ outcomes' = <<>>
    /\ UNCHANGED <<fs, selected, need_delay, mvars, fvars>>

\* lines 159-164, then 225-227
SkipReserved ==
    /\ InEntry
    /\ Entry \in SkipNames
    /\ visited' = Append(visited, Entry)
    /\ Return(FALSE, cur)
    /\ UNCHANGED <<fs, manga_dirs, need_delay, mvars, fvars>>

\* lines 170-176, then 223-224
SkipComplete ==
    /\ InEntry
    /\ Entry \notin SkipNames
    /\ AlreadyComplete(fs[Entry])
    /\ visited' = Append(visited, Entry)
    /\ Return(TRUE, cur)
    /\ UNCHANGED <<fs, manga_dirs, need_delay, mvars, fvars>>

\* lines 178-183: the search call; on None the entry ends at once.
SearchEntry ==
    /\ InEntry
    /\ Entry \notin SkipNames
    /\ ~AlreadyComplete(fs[Entry])
    /\ visited' = Append(visited, Entry)
    /\ need_delay' = TRUE
    /\ \E response \in Responses :
          LET r == SearchManga(Entry, response)
              c == [cur EXCEPT !.calls = @ + 1]
          IN IF ~r.ok
             THEN Return(FALSE, c)
             ELSE /\ selected' = response.data[r.index]
                  /\ cur' = c
                  /\ pc' = "sleep1"
                  /\ UNCHANGED <<idx, outcomes, success_count, failed_count,
                                 skipped_count>>
    /\ UNCHANGED <<fs, manga_dirs, mvars, fvars>>

\* line 186
RateLimitSearch ==
    /\ pc = "sleep1"
    /\ need_delay' = FALSE
    /\ pc' = "details"
    /\ UNCHANGED <<fs, manga_dirs, idx, selected, success_count, failed_count,
                   skipped_count, visited, cur, outcomes, mvars, fvars>>

\* lines 189-190: the value create_details_json returns is dropped.
WriteDetails ==
    /\ pc = "details"
    /\ IF Exists(fs[Entry].details)
       THEN UNCHANGED <<fs, cur>>
       ELSE \E io \in WriteOutcomes :
               LET w == CreateDetailsJson(selected, fs[Entry].details, io)
               IN /\ fs' = [fs EXCEPT ![Entry].details = w.file]
                  /\ cur' = [cur EXCEPT !.io_failed = @ \/ ~w.ret]
    /\ pc' = "cover"
    /\ UNCHANGED <<manga_dirs, idx, selected, success_count, failed_count,
                   skipped_count, visited, outcomes, need_delay, mvars, fvars>>

\* lines 193-204: an existing cover or a missing URL ends the entry with
\* True; otherwise the download call is made.
Cover ==
    /\ pc = "cover"
    /\ IF Exists(fs[Entry].cover)
       THEN Return(TRUE, cur) /\ UNCHANGED <<fs, need_delay>>
       ELSE LET u == ImageUrl(selected) IN
            IF u.raises
            THEN Raise(cur) /\ UNCHANGED <<fs, need_delay>>
            ELSE IF u.url.k # "val"
            THEN Return(TRUE, cur) /\ UNCHANGED <<fs, need_delay>>
            ELSE \E io \in DownloadOutcomes :
                    LET d == DownloadCover(u.url.v, fs[Entry].cover, io)
                    IN /\ fs' = [fs EXCEPT ![Entry].cover = d.file]
                       /\ cur' = [calls |-> cur.calls + 1,
                                  io_failed |-> cur.io_failed \/ ~d.ret]
                       /\ need_delay' = TRUE
                       /\ pc' = "sleep2"
                       /\ UNCHANGED <<idx, selected, outcomes, success_count,
                                      failed_count, skipped_count>>
    /\ UNCHANGED <<manga_dirs, visited, mvars, fvars>>

\* line 200, then 204 and 223-224
RateLimitDownload ==
    /\ pc = "sleep2"
    /\ need_delay' = FALSE
    /\ Return(TRUE, cur)
    /\ UNCHANGED <<fs, manga_dirs, visited, mvars, fvars>>

\* lines 234-242: the loop is over; the summary is logged and the run ends.
Summary ==
    /\ pc = "loop"
    /\ idx > Len(manga_dirs)
    /\ pc' = "idle"
    /\ manga_dirs' = <<>>
    /\ idx' = 0
    /\ success_count' = 0
    /\ failed_count' = 0
    /\ skipped_count' = 0
    /\ visited' = <<>>
    /\ cur' = NoCur
    /\ outcomes' = <<>>
    /\ need_delay' = FALSE
    /\ UNCHANGED <<fs, selected, mvars, fvars>>

----------------------------------------------------------------------------
(* search_manga on its own *)

\* The provider adds one more candidate to the response.
Receive ==
    /\ mpc = "recv"
    /\ Len(data) < SearchLimit
    /\ \E c \in MatchCands : data' = Append(data, c)
    /\ UNCHANGED <<title, found, mpc, fvars, wvars>>

\* search_manga(title) returns.
Search ==
    /\ mpc = "recv"
    /\ \E k \in {"ok", "error"} :
          found' = SearchManga(title, [k |-> k, data |-> data])
    /\ mpc' = "done"
    /\ UNCHANGED <<title, data, fvars, wvars>>

----------------------------------------------------------------------------
(* create_details_json on its own *)

\* create_details_json(manga_data, output_path) returns.
CreateDetails ==
    /\ fpc = "ready"
    /\ \E io \in WriteOutcomes :
          written' = CreateDetailsJson(manga_data, NoFile, io)
    /\ fpc' = "done"
    /\ UNCHANGED <<manga_data, mvars, wvars>>

----------------------------------------------------------------------------
(* Specifications *)

Init ==
    /\ title = <<>>
    /\ data = <<>>
    /\ found = NoneFound
    /\ mpc = "done"
    /\ manga_data = NoManga
    /\ written = [ret |-> FALSE, file |-> NoFile]
    /\ fpc = "done"
    /\ fs \in { f \in [Names -> UNION {InitialFiles(n) : n \in Names}] :
                  \A n \in Names : f[n] \in InitialFiles(n) }
    /\ manga_dirs = <<>>
    /\ idx = 0
    /\ pc = "idle"
    /\ selected = NoManga
    /\ success_count = 0
    /\ failed_count = 0
    /\ skipped_count = 0
    /\ visited = <<>>
    /\ cur = NoCur
    /\ outcomes = <<>>
    /\ need_delay = FALSE

Next ==
    \/ StartRun
    \/ SkipReserved
    \/ SkipComplete
    \/ SearchEntry
    \/ RateLimitSearch
    \/ WriteDetails
    \/ Cover
    \/ RateLimitDownload
    \/ Summary

Spec == Init /\ [][Next]_vars

\* The program is sequential and every call it blocks on is bounded by a
\* timeout, so a step that can be taken is taken.
FairSpec == Init /\ [][Next]_vars /\ WF_vars(Next)

MatcherInit ==
    /\ title \in Queries
    /\ data = <<>>
    /\ found = NoneFound
    /\ mpc = "recv"
    /\ manga_data = NoManga
    /\ written = [ret |-> FALSE, file |-> NoFile]
    /\ fpc = "done"
    /\ fs = <<>>
    /\ manga_dirs = <<>>
    /\ idx = 0
    /\ pc = "off"
    /\ selected = NoManga
    /\ success_count = 0
    /\ failed_count = 0
    /\ skipped_count = 0
    /\ visited = <<>>
    /\ cur = NoCur
    /\ outcomes = <<>>
    /\ need_delay = FALSE

MatcherNext == Receive \/ Search

SpecMatcher == MatcherInit /\ [][MatcherNext]_vars

MapperInit ==
    /\ title = <<>>
    /\ data = <<>>
    /\ found = NoneFound
    /\ mpc = "done"
    /\ manga_data \in MapCands
    /\ written = [ret |-> FALSE, file |-> NoFile]
    /\ fpc = "ready"
    /\ fs = <<>>
    /\ manga_dirs = <<>>
    /\ idx = 0
    /\ pc = "off"
    /\ selected = NoManga
    /\ success_count = 0
    /\ failed_count = 0
    /\ skipped_count = 0
    /\ visited = <<>>
    /\ cur = NoCur
    /\ outcomes = <<>>
    /\ need_delay = FALSE

MapperNext == CreateDetails

SpecMapper == MapperInit /\ [][MapperNext]_vars

----------------------------------------------------------------------------
(* Claims about search_manga (checked under SpecMatcher) *)

\* The lowercased and trimmed query and titles; a missing, null or empty
\* alternate title counts as the empty string.
Query == Normalize(title)
Primary(i) == IF data[i].title.k = "val" THEN Normalize(data[i].title.v) ELSE <<>>
Alternate(i) ==
    IF data[i].title_english.k = "val" THEN Normalize(data[i].title_english.v)
    ELSE <<>>

Positions == 1..Len(data)
Searched == mpc = "done" /\ found.ok
Least(S) == CHOOSE i \in S : \A j \in S : i <= j

ExactAt(i) == Primary(i) = Query \/ Alternate(i) = Query
ExactPositions == {i \in Positions : ExactAt(i)}

PrimaryRelated(i) == IsSubstr(Query, Primary(i)) \/ IsSubstr(Primary(i), Query)
AlternateRelated(i) ==
    /\ Alternate(i) # <<>>
    /\ IsSubstr(Query, Alternate(i)) \/ IsSubstr(Alternate(i), Query)
RelatedPositions == {i \in Positions : PrimaryRelated(i) \/ AlternateRelated(i)}

\* C1: when some candidate's normalized primary or alternate title equals the
\* normalized query, search_manga returns the first such candidate in list
\* order, whatever substring matches precede it.
C1_ExactMatchFirst ==
    (Searched /\ ExactPositions # {}) =>
        (found.index = Least(ExactPositions) /\ ~found.fallback)

\* C1 witness: a full list of five, the exact match is not the first
\* candidate, and a candidate before it is a substring match.
C1_Witness ==
    /\ Searched
    /\ Len(data) = SearchLimit
    /\ ExactPositions # {}
    /\ found.index = Least(ExactPositions)
    /\ found.index > 1
    /\ Query # <<>>
    /\ \E j \in 1..(found.index - 1) : PrimaryRelated(j)

NoMatchAtAll == ExactPositions = {} /\ RelatedPositions = {}

\* C9 as claimed: with no exact and no substring match the first candidate is
\* returned and the fallback is signalled, and the fallback is signalled
\* only then.
C9_FallbackOnlyWithoutMatch ==
    Searched =>
        /\ NoMatchAtAll => (found.index = 1 /\ found.fallback)
        /\ found.fallback => NoMatchAtAll

\* C9 amended: the fallback is signalled exactly when no candidate matches
\* exactly and no substring match has a positive score, i.e. when nothing
\* matches at all, or the normalized query is empty and nothing matches
\* exactly; the first candidate is then returned.
C9_FallbackIffNothingSelected ==
    Searched =>
        /\ NoMatchAtAll => (found.index = 1 /\ found.fallback)
        /\ found.fallback <=>
              (ExactPositions = {} /\ (RelatedPositions = {} \/ Query = <<>>))
        /\ found.fallback => found.index = 1

\* C9 witness: a non-empty query, several candidates, none of them related
\* to it, and the fallback taken.
C9_Witness ==
    /\ Searched
    /\ Len(data) >= 2
    /\ Query # <<>>
    /\ NoMatchAtAll
    /\ found.fallback
    /\ found.index = 1

\* Scores as the claim of C10 defines them: Len(query) / max(Len(title), 1).
ScoreOf(t) == [n |-> Len(Query), d |-> Max(Len(t), 1)]
ScoreGeq(s1, s2) == s1.n * s2.d >= s2.n * s1.d

\* Every (position, score) pair when both fields are scored independently.
IndependentScores ==
    {[i |-> i, s |-> ScoreOf(Primary(i))] : i \in {j \in Positions : PrimaryRelated(j)}}
    \cup
    {[i |-> i, s |-> ScoreOf(Alternate(i))] : i \in {j \in Positions : AlternateRelated(j)}}

\* What the loop scores: the alternate title only when the primary title is
\* not a substring match.
LoopScores ==
    {[i |-> i, s |-> ScoreOf(Primary(i))] : i \in {j \in Positions : PrimaryRelated(j)}}
    \cup
    {[i |-> i, s |-> ScoreOf(Alternate(i))] :
        i \in {j \in Positions : ~PrimaryRelated(j) /\ AlternateRelated(j)}}

EarliestBest(S) ==
    Least({e.i : e \in {x \in S : \A y \in S : ScoreGeq(x.s, y.s)}})

----------------------------------------------------------------------------
(* Claims about create_details_json and _map_status (checked under          *)
(* SpecMapper)                                                              *)

Mapped == fpc = "done" /\ written.ret
Record == written.file.content
Missing(f) == f.k \in {"absent", "null"}

\* C7 as claimed: every candidate yields a record whose description is "",
\* genre is [], author and artist are "" and status is 0 where the synopsis,
\* genres, contributors and status label are missing.
C7_MissingFieldsDefault ==
    Mapped =>
        /\ written.file.st = "full"
        /\ Missing(manga_data.synopsis) => Record.description = Val(<<>>)
        /\ Missing(manga_data.genres) => Record.genre = <<>>
        /\ Missing(manga_data.authors) => (Record.author = <<>> /\ Record.artist = <<>>)
        /\ Missing(manga_data.status) => Record.status = 0

\* The status table as the claim of C8 gives it.
ClaimedStatus(label) ==
    CASE label = Val(<<"Finished">>) -> 2
      [] label = Val(<<"Publishing">>) -> 1
      [] label = Val(<<"On Hiatus">>) -> 6
      [] label = Val(<<"Discontinued">>) -> 5
      [] label = Val(<<"Not yet published">>) -> 0
      [] OTHER -> 0

\* C8: the status written is in 0..6 and is the table's code for the label:
\* 2, 1, 6, 5, 0 for the five known labels, 0 for any other or a missing one.
C8_StatusInRange ==
    Mapped =>
        /\ Record.status \in 0..6
        /\ Record.status = ClaimedStatus(manga_data.status)

\* C8 witness: a record written for the label 'On Hiatus', with status 6.
C8_Witness ==
    /\ Mapped
    /\ written.file.st = "full"
    /\ manga_data.status = Val(<<"On Hiatus">>)
    /\ Record.status = 6

----------------------------------------------------------------------------
(* Claims about the walk (checked under Spec, C5 under FairSpec)            *)

LoopDone == pc = "loop" /\ idx > Len(manga_dirs)
Running == pc # "idle"
ReservedNames == {FreeMaga, KindleCC}

\* The step makes an outbound call for the entry in progress.
CallStep ==
    \/ cur'.calls > cur.calls
    \/ /\ Len(outcomes') = Len(outcomes) + 1
       /\ outcomes'[Len(outcomes')].calls > cur.calls

\* details.json and cover.jpg are both in the entry's directory.
BothExist(n) == fs[n].details.st # "none" /\ fs[n].cover.st # "none"

InProgress(n) == Running /\ idx \in 1..Len(manga_dirs) /\ manga_dirs[idx] = n

\* C2: once details.json and cover.jpg both exist for an entry, no step of
\* any run changes either file or makes an outbound call for that entry.
C2_CompleteEntryUntouched ==
    [][\A n \in Names :
          BothExist(n) =>
              /\ fs'[n] = fs[n]
              /\ InProgress(n) => ~CallStep]_vars

\* C2 witness: a later run has just skipped an entry whose two files an
\* earlier run of the program wrote, without a call.
C2_Witness ==
    /\ Running
    /\ outcomes # <<>>
    /\ LET o == outcomes[Len(outcomes)] IN
          /\ o.name \notin ReservedNames
          /\ o.counter = "success"
          /\ o.calls = 0
          /\ fs[o.name].details.st = "full"
          /\ fs[o.name].details # OldDetails
          /\ fs[o.name].cover.st = "full"
          /\ fs[o.name].cover # OldCover

\* C3 as claimed: an entry for which create_details_json or download_cover
\* failed is counted as failed.
C3_IoFailureCountedFailed ==
    \A i \in DOMAIN outcomes :
        outcomes[i].io_failed => outcomes[i].counter = "failed"

\* C4 as claimed: after an outbound call nothing else happens before the
\* delay: no next entry is started and no further step of the entry is taken
\* while a call is still waiting for its sleep.
C4_DelayAfterEveryCall ==
    need_delay => ~(InEntry \/ pc \in {"details", "cover"})

Ascending(seq) == \A i, j \in DOMAIN seq : i < j => StrLess(seq[i], seq[j])
CountOf(counter) == Cardinality({i \in DOMAIN outcomes : outcomes[i].counter = counter})

\* What C5 says of every state of a run.
C5_State ==
    Running =>
        /\ Ascending(manga_dirs)
        /\ {manga_dirs[i] : i \in DOMAIN manga_dirs} = Names
        /\ Len(manga_dirs) = Cardinality(Names)
        /\ visited = SubSeq(manga_dirs, 1, Len(visited))
        /\ Len(visited) \in {idx - 1, idx}
        /\ \A i \in DOMAIN outcomes : outcomes[i].name = manga_dirs[i]
        /\ Len(outcomes) = idx - 1
        /\ success_count = CountOf("success")
        /\ failed_count = CountOf("failed")
        /\ skipped_count = CountOf("skipped")
        /\ success_count + failed_count + skipped_count = Len(outcomes)
        /\ LoopDone =>
              /\ visited = manga_dirs
              /\ success_count + failed_count + skipped_count = Len(manga_dirs)

\* C5: a run visits every subdirectory once, in ascending order, counts each
\* in exactly one counter, and whatever fails or raises on the way, the loop
\* reaches its end with the counters summing to the number of directories.
C5_WalkCompletes == []C5_State /\ (Running ~> LoopDone)

\* C5 witness: the loop is over, an earlier entry raised, another failed,
\* and a later entry was still processed successfully.
C5_Witness ==
    /\ LoopDone
    /\ \E i, j \in DOMAIN outcomes :
          /\ i < j
          /\ outcomes[i].raised
          /\ outcomes[j].counter = "success"
          /\ outcomes[j].calls = 2
    /\ failed_count = 1
    /\ skipped_count = 2
    /\ success_count = 1

\* C6: a reserved entry is never searched, none of its files is ever
\* written, and it is counted as skipped.
C6_ReservedSkipped ==
    /\ [](\A i \in DOMAIN outcomes :
             outcomes[i].name \in ReservedNames =>
                 (outcomes[i].counter = "skipped" /\ outcomes[i].calls = 0))
    /\ [](\A n \in ReservedNames : InProgress(n) => (pc = "loop" /\ cur = NoCur))
    /\ [][\A n \in ReservedNames : fs'[n] = fs[n]]_vars

\* C6 witness: the loop is over, both reserved entries went to the skipped
\* counter, one of them holding files and the other none.
C6_Witness ==
    /\ LoopDone
    /\ skipped_count = 2
    /\ \E i, j \in DOMAIN outcomes :
          /\ outcomes[i].name = KindleCC /\ outcomes[i].counter = "skipped"
          /\ outcomes[j].name = FreeMaga /\ outcomes[j].counter = "skipped"
    /\ BothExist(KindleCC)
    /\ fs[FreeMaga].details.st = "none"

====
